---- MODULE Spec2Model ----
(***************************************************************************)
(* Model of the two browser passes of src/main.py:                         *)
(*   validate_with_mcp                 (the validation pass)               *)
(*   execute_scenario_with_playwright  (the execution pass)                *)
(* The browser (Playwright) is external: every call on it may succeed or   *)
(* raise, and a visibility query may answer visible or hidden; the model   *)
(* draws these outcomes with \E.  One action is one iteration of a step    *)
(* loop (or the prologue / epilogue of a pass), which is the code between  *)
(* two step boundaries.                                                    *)
(***************************************************************************)
EXTENDS Integers, Sequences, FiniteSets, TLC

\* ------------------------------------------------------------------ bounds
\* Size of the scenario list of one request: the total number of steps, a
\* scenario without steps counting as one.
MaxSteps == 3
\* The same size for the scenario list of a generate request, which goes through
\* both passes.
MaxGenSteps == 2
\* Last second and last microsecond-within-a-second the clock shows.
MaxSec == 1
MaxMicro == 1

\* ------------------------------------------------------------- vocabulary
None == "None"
\* A dict key that is absent: reading it raises KeyError.
Missing == "<missing>"
NoSel == << >>

\* Selectors are strings, modelled as sequences of chunks; the four
\* characters the resolver strips are chunks of their own.
SelA == << "[", "name", "=", "'", "q", "'", "]" >>
SelB == << "#go" >>

StripChars == { "[", "]", "'", "=" }

\* step["selector"].replace("[","").replace("]","").replace("'","").replace("=","")
Token(sel) == SelectSeq(sel, LAMBDA c : c \notin StripChars)

\* The three alternative selectors, in the order the code lists them.
Alternatives(sel) ==
    << << "[data-testid=\"" >> \o Token(sel) \o << "\"]" >>,
       << "[aria-label*=\"" >> \o Token(sel) \o << "\"]" >>,
       << "[placeholder*=\"" >> \o Token(sel) \o << "\"]" >> >>

GotoStep   == [action |-> "goto",   url |-> "https://x", selector |-> NoSel, value |-> None, condition |-> None]
FillStep   == [action |-> "fill",   url |-> None, selector |-> SelA, value |-> "v", condition |-> None]
ClickStep  == [action |-> "click",  url |-> None, selector |-> SelB, value |-> None, condition |-> None]
ExpectStep == [action |-> "expect", url |-> None, selector |-> SelB, value |-> None, condition |-> "toBeVisible"]
ExpectOther == [action |-> "expect", url |-> None, selector |-> SelB, value |-> None, condition |-> "toHaveText"]
\* A step dict without an "action" key (the scenario comes from an LLM).
NoActionStep == [action |-> Missing, url |-> None, selector |-> SelB, value |-> None, condition |-> None]

StepPool == { GotoStep, FillStep, ClickStep, ExpectStep, ExpectOther, NoActionStep }

RECURSIVE SeqsUpTo(_, _)
SeqsUpTo(S, n) ==
    IF n = 0 THEN { << >> }
    ELSE LET shorter == SeqsUpTo(S, n - 1)
         IN  shorter \cup { Append(s, x) : s \in { t \in shorter : Len(t) = n - 1 }, x \in S }

StepLists == SeqsUpTo(StepPool, MaxSteps)

Scenario(steps) == [name |-> "s", steps |-> steps]

RECURSIVE ScenarioListsOf(_)
\* Scenario lists of size at most n.
ScenarioListsOf(n) ==
    IF n = 0 THEN { << >> }
    ELSE { << >> } \cup
         UNION { { << Scenario(st) >> \o rest :
                     rest \in ScenarioListsOf(n - (IF st = << >> THEN 1 ELSE Len(st))) } :
                 st \in { s \in StepLists : Len(s) <= n } }

ScenarioLists == ScenarioListsOf(MaxSteps)

\* ------------------------------------------------------------ skip-list
\* Strings the skip check reads are sequences of characters.
Lower(c) ==
    CASE c = "B" -> "b"
      [] c = "K" -> "k"
      [] OTHER   -> c

\* str.lower()
LowerStr(s) == [i \in 1..Len(s) |-> Lower(s[i])]

\* Python's `sub in s` for strings
Contains(sub, s) ==
    \E i \in 0..(Len(s) - Len(sub)) :
        \A j \in 1..Len(sub) : s[i + j] = sub[j]

UrlNone == << >>
UrlBank == << "m", "y", "B", "k" >>
UrlShop == << "s", "h" >>
TargetUrls == { UrlNone, UrlBank, UrlShop }
SkipDomains == << << "b", "k" >> >>

\* should_skip_mcp_validation(target_url), reading config.skip_mcp_domains
should_skip_mcp_validation(domains, url) ==
    IF url = << >> THEN FALSE
    ELSE \E d \in 1..Len(domains) :
            domains[d] # << >> /\ Contains(domains[d], LowerStr(url))

\* ---------------------------------------------------------------- state
VARIABLES
    enable_mcp_validation,  \* config.enable_mcp_validation
    skip_mcp_domains,       \* config.skip_mcp_domains
    skip_url,               \* argument of a call of should_skip_mcp_validation
    skip_result,            \* what that call returned
    scenarios,              \* the caller's scenario list (steps are mutated in place)
    original,               \* the scenario list as it was passed in
    pc,                     \* position of the running pass
    si,                     \* index of the scenario being validated
    ti,                     \* index of the step about to be processed
    browser,                \* None, or "Browser" once launched
    current_url,            \* None until a goto succeeds in this scenario
    execution_metrics,      \* counters and stepDetails of the validation pass
    validated_steps,        \* copies of the passed steps of this scenario
    validated_scenarios,    \* validated scenarios built so far
    vResult,                \* what validate_with_mcp gave its caller
    calls,                  \* browser calls made by the step last processed (validation)
                            \* or by the pass so far (execution)
    closeCalls,             \* number of browser.close() calls
    scenario,               \* argument of execute_scenario_with_playwright
    ei,                     \* index of the step about to be executed
    executed_code,          \* transcript lines
    final_result,           \* final_result of the execution pass
    page_state,             \* page_state of the execution pass
    artifacts,              \* keys of the artifacts dict, in insertion order
    raisedSteps,            \* indexes of the steps whose action raised
    visited,                \* indexes of the steps the execution loop entered, in order
    eResult,                \* what execute_scenario_with_playwright gave its caller
    clock,                  \* what datetime.now() returns: [sec, us]
    passes,                 \* the in-flight execution passes of concurrent requests
    disk                    \* files under playwright_reports_dir, with the pass that wrote each

cfgVars == << enable_mcp_validation, skip_mcp_domains, skip_url, skip_result, original,
              clock, passes, disk >>
valVars == << scenarios, si, ti, current_url, execution_metrics,
              validated_steps, validated_scenarios, vResult >>
exeVars == << scenario, ei, executed_code, final_result, page_state, artifacts,
              raisedSteps, visited, eResult >>
vars == << cfgVars, valVars, exeVars, pc, browser, calls, closeCalls >>

\* ------------------------------------------------------- validation pass
\* One call on the browser, as a test double would record it, with its outcome.
Call(op, sel, res) == [op |-> op, sel |-> sel, res |-> res]

Detail(step, status, reason) == [step |-> step, status |-> status, reason |-> reason]

\* Counted with the warning counter forgotten.
CountedNoWarning(m, status, detail) ==
    [m EXCEPT !.totalSteps = @ + 1,
              !.passedSteps = IF status = "passed" THEN @ + 1 ELSE @,
              !.failedSteps = IF status = "failed" THEN @ + 1 ELSE @,
              !.stepDetails = Append(@, detail)]

\* Counted with totalSteps incremented after the no-page check instead of before it.
CountedAfterSkip(m, status, detail) ==
    [m EXCEPT !.totalSteps = IF status = "warning" THEN @ ELSE @ + 1,
              !.passedSteps = IF status = "passed" THEN @ + 1 ELSE @,
              !.failedSteps = IF status = "failed" THEN @ + 1 ELSE @,
              !.warningSteps = IF status = "warning" THEN @ + 1 ELSE @,
              !.stepDetails = Append(@, detail)]

\* execution_metrics["totalSteps"] += 1, one status counter += 1, stepDetails.append
Counted(m, status, detail) ==
    [m EXCEPT !.totalSteps = @ + 1,
              !.passedSteps = IF status = "passed" THEN @ + 1 ELSE @,
              !.failedSteps = IF status = "failed" THEN @ + 1 ELSE @,
              !.warningSteps = IF status = "warning" THEN @ + 1 ELSE @,
              !.stepDetails = Append(@, detail)]

NoResult == [outcome |-> "none", validated |-> FALSE, status |-> "", reason |-> "",
             ref |-> "", hasMetrics |-> FALSE]

\* Returned with the caller's list kept under "scenarios" in every result.
ReturnedOriginal(validated, status, reason, ref, hasMetrics) ==
    [outcome |-> "returned", validated |-> validated, status |-> status,
     reason |-> reason, ref |-> "scenarios", hasMetrics |-> hasMetrics]

\* A dict returned by validate_with_mcp.  ref names the list object stored under
\* "scenarios"; hasMetrics tells whether execution_metrics is part of the result.
Returned(validated, status, reason, ref, hasMetrics) ==
    [outcome |-> "returned", validated |-> validated, status |-> status,
     reason |-> reason, ref |-> ref, hasMetrics |-> hasMetrics]

\* An exception that leaves validate_with_mcp.
Raised(reason) ==
    [outcome |-> "raised", validated |-> FALSE, status |-> "", reason |-> reason,
     ref |-> "", hasMetrics |-> FALSE]

CurScenario == scenarios[si]
CurStep == scenarios[si].steps[ti]

\* VFinally with the close at the end of the `try` body instead of in a `finally`.
VFinallyOnSuccess(launched, result, closeOk) ==
    /\ pc' = "v_done"
    /\ IF launched /\ result.validated
       THEN /\ closeCalls' = closeCalls + 1
            /\ vResult' = IF closeOk THEN result ELSE Raised("close")
       ELSE /\ closeOk
            /\ closeCalls' = closeCalls
            /\ vResult' = result

\* The `finally` of validate_with_mcp: close the browser if it was launched; an
\* exception of close() replaces the value being returned.
VFinally(launched, result, closeOk) ==
    /\ pc' = "v_done"
    /\ IF launched
       THEN /\ closeCalls' = closeCalls + 1
            /\ vResult' = IF closeOk THEN result ELSE Raised("close")
       ELSE /\ closeOk
            /\ closeCalls' = closeCalls
            /\ vResult' = result

\* VFail returning the scenarios validated so far.
VFailPartial(launched, reason, closeOk) ==
    VFinally(launched, Returned(FALSE, "failed", reason, "validated_scenarios", FALSE), closeOk)

\* The `except Exception as error` of validate_with_mcp, then its `finally`.
VFail(launched, reason, closeOk) ==
    VFinally(launched, Returned(FALSE, "failed", reason, "scenarios", FALSE), closeOk)

VBypassDisabled ==
    /\ pc = "v_start"
    /\ ~enable_mcp_validation
    /\ vResult' = Returned(FALSE, "skipped", "MCP validation disabled", "scenarios", FALSE)
    /\ pc' = "v_done"
    /\ UNCHANGED << cfgVars, exeVars, scenarios, si, ti, current_url, execution_metrics,
                    validated_steps, validated_scenarios, browser, calls, closeCalls >>

VBypassSkip(target_url) ==
    /\ pc = "v_start"
    /\ enable_mcp_validation
    /\ target_url # << >>
    /\ should_skip_mcp_validation(skip_mcp_domains, target_url)
    /\ vResult' = Returned(FALSE, "skipped", "Skipped due to sensitive domain", "scenarios", FALSE)
    /\ pc' = "v_done"
    /\ UNCHANGED << cfgVars, exeVars, scenarios, si, ti, current_url, execution_metrics,
                    validated_steps, validated_scenarios, browser, calls, closeCalls >>

\* chromium.launch() and browser.new_page()
VLaunch(target_url, launchOk, pageOk, closeOk) ==
    /\ pc = "v_start"
    /\ enable_mcp_validation
    /\ ~(target_url # << >> /\ should_skip_mcp_validation(skip_mcp_domains, target_url))
    /\ IF ~launchOk
       THEN /\ pageOk
            /\ browser' = None
            /\ calls' = << Call("launch", NoSel, "throws") >>
            /\ VFail(FALSE, "launch failed", closeOk)
            /\ si' = si
       ELSE IF ~pageOk
       THEN /\ browser' = "Browser"
            /\ calls' = << Call("launch", NoSel, "ok"), Call("new_page", NoSel, "throws") >>
            /\ VFail(TRUE, "new_page failed", closeOk)
            /\ si' = si
       ELSE /\ closeOk
            /\ browser' = "Browser"
            /\ calls' = << Call("launch", NoSel, "ok"), Call("new_page", NoSel, "ok") >>
            /\ pc' = "v_scenario"
            /\ si' = 1
            /\ UNCHANGED << vResult, closeCalls >>
    /\ UNCHANGED << cfgVars, exeVars, scenarios, ti, current_url, execution_metrics,
                    validated_steps, validated_scenarios >>

\* UrlAtScenarioStart of a session kept for the whole pass.
UrlAtScenarioStartKept == current_url

\* current_url = None at the top of the scenario loop body
UrlAtScenarioStart == None

\* for scenario in scenarios: ... validated_steps = []; current_url = None
VScenario ==
    /\ pc = "v_scenario"
    /\ si <= Len(scenarios)
    /\ validated_steps' = << >>
    /\ current_url' = UrlAtScenarioStart
    /\ ti' = 1
    /\ pc' = "v_step"
    /\ UNCHANGED << cfgVars, exeVars, scenarios, si, execution_metrics,
                    validated_scenarios, vResult, browser, calls, closeCalls >>

AtStep == pc = "v_step" /\ ti <= Len(CurScenario.steps)

\* What every step that stays inside the per-step handling leaves alone.
StepFrame ==
    /\ ti' = ti + 1
    /\ pc' = "v_step"
    /\ UNCHANGED << cfgVars, exeVars, si, validated_scenarios, vResult, browser, closeCalls >>

\* UrlAfterGoto with a failed navigation dropping the page.
UrlAfterGotoCleared(ok, url) == IF ok THEN url ELSE None

\* UrlAfterGoto with the assignment made before the navigation is awaited.
UrlAfterGotoEager(ok, url) == url

\* await page.goto(...); current_url = step['url'] -- the assignment is skipped
\* when goto raises.
UrlAfterGoto(ok, url) == IF ok THEN url ELSE current_url

\* if step['action'] == 'goto'
VGoto(ok) ==
    /\ AtStep
    /\ CurStep.action = "goto"
    /\ calls' = << Call("goto", NoSel, IF ok THEN "ok" ELSE "throws") >>
    /\ IF ok
       THEN /\ execution_metrics' =
                 Counted(execution_metrics, "passed", Detail("Navigate to", "passed", ""))
            /\ validated_steps' = Append(validated_steps, CurStep)
       ELSE /\ execution_metrics' =
                 Counted(execution_metrics, "failed", Detail("goto", "failed", "goto error"))
            /\ validated_steps' = validated_steps
    /\ current_url' = UrlAfterGoto(ok, CurStep.url)
    /\ scenarios' = scenarios
    /\ StepFrame

\* if not current_url: skip the step with a warning
VNoPage ==
    /\ AtStep
    /\ CurStep.action \notin { "goto", Missing }
    /\ current_url = None
    /\ calls' = << >>
    /\ execution_metrics' =
         Counted(execution_metrics, "warning", Detail(CurStep.action, "warning", "No page loaded"))
    /\ UNCHANGED << scenarios, current_url, validated_steps >>
    /\ StepFrame

Outcomes == { "visible", "hidden", "throws" }

\* FirstVisible that keeps the last alternative tried when none is visible.
FirstVisibleOrLast(alts) ==
    IF \E i \in 1..3 : alts[i] = "visible"
    THEN CHOOSE i \in 1..3 : alts[i] = "visible" /\ \A j \in 1..(i - 1) : alts[j] # "visible"
    ELSE 3

\* FirstVisible without the `break`: the last visible alternative wins.
LastVisible(alts) ==
    IF \E i \in 1..3 : alts[i] = "visible"
    THEN CHOOSE i \in 1..3 : alts[i] = "visible" /\ \A j \in (i + 1)..3 : alts[j] # "visible"
    ELSE 0

\* Index of the first alternative whose first match is visible, 0 if there is none.
FirstVisible(alts) ==
    IF \E i \in 1..3 : alts[i] = "visible"
    THEN CHOOSE i \in 1..3 : alts[i] = "visible" /\ \A j \in 1..(i - 1) : alts[j] # "visible"
    ELSE 0

\* The visibility queries made on the first n alternatives, with their answers.
Probes(alt, alts, n) == [i \in 1..n |-> Call("is_visible", alt[i], alts[i])]

\* QueryRaised with the exception of the primary query swallowed like a probe's.
QueryRaisedSwallowed(primary) == FALSE

\* element.is_visible() of the step's own selector raised: `except Exception as
\* selector_error` records the step as failed without probing.
QueryRaised(primary) == primary = "throws"

\* IsVisible with the answer of the primary query ignored.
IsVisibleIgnored(primary) == FALSE

\* `if not is_visible` is not taken: the step's own selector is visible.
IsVisible(primary) == primary = "visible"

\* UrlAfterInteractive with a failed step dropping the page.
UrlAfterInteractiveReset(status) == IF status = "failed" THEN None ELSE current_url

\* A fill, click or expect step never assigns current_url, whatever its outcome.
UrlAfterInteractive(status) == current_url

\* StepCalls of a validation that only checks reachability.
StepCallsNone(step, sel, res) == << >>

\* "Execute the step": page.locator(step['selector']).click() / .fill(value)
StepCalls(step, sel, res) == << Call(step.action, sel, res) >>

\* if step['action'] in ['click', 'fill']: resolve the selector, then perform the step
VSelector(primary, alts, actOk) ==
    /\ AtStep
    /\ CurStep.action \in { "click", "fill" }
    /\ current_url # None
    /\ LET sel == CurStep.selector
           alt == Alternatives(sel)
           k   == FirstVisible(alts)
           first == << Call("is_visible", sel, primary) >>
           res == IF actOk THEN "ok" ELSE "throws"
           status == IF QueryRaised(primary) \/ (~IsVisible(primary) /\ k = 0) \/ ~actOk
                     THEN "failed" ELSE "passed"
       IN  /\ current_url' = UrlAfterInteractive(status)
           /\ CASE QueryRaised(primary) ->
                  /\ actOk /\ alts = [i \in 1..3 |-> "hidden"]
                  /\ calls' = first
                  /\ execution_metrics' = Counted(execution_metrics, "failed",
                                            Detail(CurStep.action, "failed", "Selector error"))
                  /\ UNCHANGED << scenarios, validated_steps >>
             [] ~QueryRaised(primary) /\ IsVisible(primary) ->
                  /\ alts = [i \in 1..3 |-> "hidden"]
                  /\ calls' = first \o StepCalls(CurStep, sel, res)
                  /\ scenarios' = scenarios
                  /\ IF actOk
                     THEN /\ execution_metrics' = Counted(execution_metrics, "passed",
                                                    Detail(CurStep.action, "passed", ""))
                          /\ validated_steps' = Append(validated_steps, CurStep)
                     ELSE /\ execution_metrics' = Counted(execution_metrics, "failed",
                                                    Detail(CurStep.action, "failed", "action error"))
                          /\ validated_steps' = validated_steps
             [] ~QueryRaised(primary) /\ ~IsVisible(primary) /\ k = 0 ->
                  /\ actOk
                  /\ calls' = first \o Probes(alt, alts, 3)
                  /\ execution_metrics' = Counted(execution_metrics, "failed",
                                            Detail(CurStep.action, "failed", "Selector not found"))
                  /\ UNCHANGED << scenarios, validated_steps >>
             [] ~QueryRaised(primary) /\ ~IsVisible(primary) /\ k # 0 ->
                  /\ \A j \in (k + 1)..3 : alts[j] = "hidden"
                  /\ calls' = first \o Probes(alt, alts, k) \o StepCalls(CurStep, alt[k], res)
                  /\ scenarios' = [scenarios EXCEPT ![si].steps[ti].selector = alt[k]]
                  /\ IF actOk
                     THEN /\ execution_metrics' = Counted(execution_metrics, "passed",
                                                    Detail(CurStep.action, "passed", ""))
                          /\ validated_steps' =
                               Append(validated_steps, [CurStep EXCEPT !.selector = alt[k]])
                     ELSE /\ execution_metrics' = Counted(execution_metrics, "failed",
                                                    Detail(CurStep.action, "failed", "action error"))
                          /\ validated_steps' = validated_steps
    /\ StepFrame

\* elif step['action'] == 'expect': wait_for only when the condition is toBeVisible
VExpect(ok) ==
    /\ AtStep
    /\ CurStep.action = "expect"
    /\ current_url # None
    /\ IF CurStep.condition = "toBeVisible"
       THEN calls' = << Call("wait_for", CurStep.selector, IF ok THEN "ok" ELSE "throws") >>
       ELSE ok /\ calls' = << >>
    /\ IF ok
       THEN /\ execution_metrics' = Counted(execution_metrics, "passed",
                                      Detail("expect", "passed", ""))
            /\ validated_steps' = Append(validated_steps, CurStep)
       ELSE /\ execution_metrics' = Counted(execution_metrics, "failed",
                                      Detail("expect", "failed", "wait_for error"))
            /\ validated_steps' = validated_steps
    /\ scenarios' = scenarios
    /\ current_url' = UrlAfterInteractive(IF ok THEN "passed" ELSE "failed")
    /\ StepFrame

\* A step without "action": step['action'] raises KeyError, the per-step handler
\* counts a failed step and raises KeyError again while building the detail, and
\* that exception ends the pass.
VMalformed(closeOk) ==
    /\ AtStep
    /\ CurStep.action = Missing
    /\ calls' = << >>
    /\ execution_metrics' = [execution_metrics EXCEPT !.totalSteps = @ + 1,
                                                      !.failedSteps = @ + 1]
    /\ VFail(TRUE, "KeyError: 'action'", closeOk)
    /\ UNCHANGED << cfgVars, exeVars, scenarios, si, ti, current_url, validated_steps,
                    validated_scenarios, browser >>

\* ValidatedScenario that keeps the steps of the copy.
ValidatedScenarioAllSteps(sc, steps) == sc

\* validated_scenario = scenario.copy(); validated_scenario['steps'] = validated_steps
ValidatedScenario(sc, steps) == [sc EXCEPT !.steps = steps]

\* ScenariosAfterCopy without the copy: the caller's scenario gets the validated steps.
ScenariosAfterAssign == [scenarios EXCEPT ![si].steps = validated_steps]

\* scenario.copy(): assigning 'steps' on the copy leaves the caller's scenario alone
ScenariosAfterCopy == scenarios

\* validated_scenario = scenario.copy(); validated_scenario['steps'] = validated_steps
VEndScenario ==
    /\ pc = "v_step"
    /\ ti > Len(CurScenario.steps)
    /\ validated_scenarios' =
         Append(validated_scenarios, ValidatedScenario(CurScenario, validated_steps))
    /\ scenarios' = ScenariosAfterCopy
    /\ si' = si + 1
    /\ pc' = "v_scenario"
    /\ UNCHANGED << cfgVars, exeVars, ti, current_url, execution_metrics,
                    validated_steps, vResult, browser, calls, closeCalls >>

\* return {"validated": True, "scenarios": validated_scenarios, ...}
VReturn(closeOk) ==
    /\ pc = "v_scenario"
    /\ si > Len(scenarios)
    /\ VFinally(TRUE, Returned(TRUE, "completed", "", "validated_scenarios", TRUE), closeOk)
    /\ calls' = << >>
    /\ UNCHANGED << cfgVars, exeVars, scenarios, si, ti, current_url, execution_metrics,
                    validated_steps, validated_scenarios, browser >>

\* -------------------------------------------------------- execution pass
ENoResult == [outcome |-> "none", success |-> FALSE, error |-> "",
              hasReport |-> FALSE, hasArtifacts |-> FALSE]

\* ESuccess reporting final_result as the success of the pass.
ESuccessFromSteps == [outcome |-> "returned", success |-> final_result, error |-> "",
                      hasReport |-> TRUE, hasArtifacts |-> TRUE]

\* return {'success': True, 'formattedResult', 'executionReport', 'artifacts'}
ESuccess == [outcome |-> "returned", success |-> TRUE, error |-> "",
             hasReport |-> TRUE, hasArtifacts |-> TRUE]

\* EFailure of a handler that logs the error and still returns what was produced.
EFailureSwallowed(error) == [outcome |-> "returned", success |-> TRUE, error |-> error,
                             hasReport |-> TRUE, hasArtifacts |-> TRUE]

\* except Exception as error: return {'success': False, 'error', 'formattedResult'}
EFailure(error) == [outcome |-> "returned", success |-> FALSE, error |-> error,
                    hasReport |-> FALSE, hasArtifacts |-> FALSE]

Ok(b) == IF b THEN "ok" ELSE "throws"

\* StartOps with the trace started before the initial screenshot.
StartOpsTraceFirst == << "mkdir", "launch", "new_context", "new_page", "tracing.start", "screenshot" >>

\* The calls before the step loop, in program order.
StartOps == << "mkdir", "launch", "new_context", "new_page", "screenshot", "tracing.start" >>

\* Position of an operation in a sequence of operations, 0 if it is not there.
IndexOf(ops, op) ==
    IF \E i \in 1..Len(ops) : ops[i] = op
    THEN CHOOSE i \in 1..Len(ops) : ops[i] = op
    ELSE 0

\* The calls made when the operation at position f raises (f = 0: none does).
CallsUpTo(ops, f) ==
    [i \in 1..(IF f = 0 THEN Len(ops) ELSE f) |->
        Call(ops[i], NoSel, Ok(i # f))]

\* The inner `try` of the execution pass starts after new_page; only a failure
\* inside it runs the `finally` that closes the browser.
InInnerTry(op) == op \in { "screenshot", "tracing.start" }

\* The prologue of execute_scenario_with_playwright up to the step loop.
EStart(fail, closeOk) ==
    /\ pc = "e_start"
    /\ LET f == IndexOf(StartOps, fail)
           made == CallsUpTo(StartOps, f)
       IN  /\ browser' = IF f = 0 \/ f > IndexOf(StartOps, "launch") THEN "Browser" ELSE None
           /\ artifacts' = IF f = 0 \/ f > IndexOf(StartOps, "screenshot")
                           THEN << "screenshot" >> ELSE << >>
           /\ IF f = 0
              THEN /\ closeOk
                   /\ calls' = made
                   /\ pc' = "e_step"
                   /\ ei' = 1
                   /\ UNCHANGED << eResult, closeCalls >>
              ELSE IF InInnerTry(fail)
              THEN /\ calls' = Append(made, Call("close", NoSel, Ok(closeOk)))
                   /\ closeCalls' = closeCalls + 1
                   /\ eResult' = EFailure(IF closeOk THEN fail ELSE "close")
                   /\ pc' = "e_done"
                   /\ ei' = ei
              ELSE /\ closeOk
                   /\ calls' = made
                   /\ closeCalls' = closeCalls
                   /\ eResult' = EFailure(fail)
                   /\ pc' = "e_done"
                   /\ ei' = ei
    /\ executed_code' = << >>
    /\ final_result' = TRUE
    /\ page_state' = None
    /\ UNCHANGED << cfgVars, valVars, scenario, raisedSteps, visited >>

EStepAt == scenario.steps[ei]

\* Line with a transcript line for every step, whatever its kind.
LineEveryStep(step) ==
    CASE step.action = "goto"   -> << << "goto", step.url >> >>
      [] step.action = "fill"   -> << << "fill", step.selector, step.value >> >>
      [] step.action = "click"  -> << << "click", step.selector >> >>
      [] step.action = "expect" /\ step.condition = "toBeVisible"
                                -> << << "wait_for", step.selector >> >>
      [] OTHER                  -> << << step.action, step.selector >> >>

\* The transcript line a step appends before its action, if it appends one.
Line(step) ==
    CASE step.action = "goto"   -> << << "goto", step.url >> >>
      [] step.action = "fill"   -> << << "fill", step.selector, step.value >> >>
      [] step.action = "click"  -> << << "click", step.selector >> >>
      [] step.action = "expect" /\ step.condition = "toBeVisible"
                                -> << << "wait_for", step.selector >> >>
      [] OTHER                  -> << >>

\* StepOp with the page-loaded check of the validation pass: before a successful
\* goto only a goto step makes its call.
StepOpIfPage(step) ==
    CASE step.action = "goto"   -> "goto"
      [] step.action \in { "fill", "click" }
           /\ (\E i \in 1..Len(calls) : calls[i].op = "goto" /\ calls[i].res = "ok")
                                -> step.action
      [] step.action = "expect" /\ step.condition = "toBeVisible"
           /\ (\E i \in 1..Len(calls) : calls[i].op = "goto" /\ calls[i].res = "ok")
                                -> "wait_for"
      [] OTHER                  -> None

\* The browser call a step makes, if it makes one.
StepOp(step) ==
    CASE step.action = "goto"   -> "goto"
      [] step.action = "fill"   -> "fill"
      [] step.action = "click"  -> "click"
      [] step.action = "expect" /\ step.condition = "toBeVisible" -> "wait_for"
      [] OTHER                  -> None

\* NextIndex with `break` in the handler instead of `continue`.
NextIndexBreak(raises) == IF raises THEN Len(scenario.steps) + 1 ELSE ei + 1

\* except Exception as step_error: ...; continue -- the loop goes on to the next step
NextIndex(raises) == ei + 1

\* FinalResultAfter as an assignment of the last step's outcome.
FinalResultOfLast(raises) == ~raises

\* final_result = False in the step handler; no other assignment after line 523
FinalResultAfter(raises) == IF raises THEN FALSE ELSE final_result

\* 'status': 'completed' if final_result else 'failed'
ExecutionStatus == IF final_result THEN "completed" ELSE "failed"

\* One iteration of `for i, step in enumerate(scenario['steps'])`: the step's
\* action, and the handler of the exception it may raise.
EStep(ok) ==
    /\ pc = "e_step"
    /\ ei <= Len(scenario.steps)
    /\ LET step == EStepAt
           op == StepOp(step)
           raises == step.action = Missing \/ (op # None /\ ~ok)
       IN  /\ (op = None) => ok
           /\ executed_code' = executed_code \o Line(step)
           /\ calls' = IF op = None THEN calls
                       ELSE Append(calls, Call(op, step.selector, Ok(ok)))
           /\ final_result' = FinalResultAfter(raises)
           /\ raisedSteps' = IF raises THEN raisedSteps \cup { ei } ELSE raisedSteps
           /\ ei' = NextIndex(raises)
    /\ visited' = Append(visited, ei)
    /\ pc' = "e_step"
    /\ UNCHANGED << cfgVars, valVars, scenario, page_state, artifacts, eResult,
                    browser, closeCalls >>

\* PageStateAfter with a handler that swallows the failure without recording it.
PageStateKept(stateOk) == IF stateOk THEN "state" ELSE page_state

\* page_state = {'url', 'title', 'snapshot'}, or {'error': str(state_error)} when
\* reading the URL or title raised
PageStateAfter(stateOk) == IF stateOk THEN "state" ELSE "error"

\* The epilogue: stop the trace, final screenshot, page state, close, reports.
\* A failure of page.title() is caught and stored in page_state.
EFinish(fail, stateOk, closeOk) ==
    /\ pc = "e_step"
    /\ ei > Len(scenario.steps)
    /\ fail \in { "none", "tracing.stop", "screenshot_final", "write_txt", "write_json" }
    /\ LET stop == Call("tracing.stop", NoSel, Ok(fail # "tracing.stop"))
           shot == Call("screenshot_final", NoSel, Ok(fail # "screenshot_final"))
           title == Call("title", NoSel, Ok(stateOk))
           close == Call("close", NoSel, Ok(closeOk))
       IN  CASE fail = "tracing.stop" ->
                  /\ stateOk
                  /\ calls' = calls \o << stop, close >>
                  /\ UNCHANGED << artifacts, page_state >>
                  /\ eResult' = EFailure(IF closeOk THEN fail ELSE "close")
             [] fail = "screenshot_final" ->
                  /\ stateOk
                  /\ calls' = calls \o << stop, shot, close >>
                  /\ artifacts' = Append(artifacts, "trace")
                  /\ page_state' = page_state
                  /\ eResult' = EFailure(IF closeOk THEN fail ELSE "close")
             [] OTHER ->
                  /\ artifacts' = artifacts \o << "trace", "screenshot_final" >>
                  /\ page_state' = PageStateAfter(stateOk)
                  /\ IF ~closeOk
                     THEN /\ fail = "none"
                          /\ calls' = calls \o << stop, shot, title, close >>
                          /\ eResult' = EFailure("close")
                     ELSE IF fail = "write_txt"
                     THEN /\ calls' = calls \o << stop, shot, title, close,
                                                  Call("write_txt", NoSel, "throws") >>
                          /\ eResult' = EFailure(fail)
                     ELSE IF fail = "write_json"
                     THEN /\ calls' = calls \o << stop, shot, title, close,
                                                  Call("write_txt", NoSel, "ok"),
                                                  Call("write_json", NoSel, "throws") >>
                          /\ eResult' = EFailure(fail)
                     ELSE /\ calls' = calls \o << stop, shot, title, close,
                                                  Call("write_txt", NoSel, "ok"),
                                                  Call("write_json", NoSel, "ok") >>
                          /\ eResult' = ESuccess
    /\ closeCalls' = closeCalls + 1
    /\ pc' = "e_done"
    /\ UNCHANGED << cfgVars, valVars, scenario, ei, executed_code, final_result,
                    raisedSteps, visited, browser >>

\* Two requests served at once.
Invocations == { "A", "B" }

NoPass == [pc |-> "start", report_dir |-> None, session |-> 0]

ConcIdle ==
    /\ clock = [sec |-> 0, us |-> 0]
    /\ passes = [i \in Invocations |-> NoPass]
    /\ disk = { }

SkipIdle ==
    /\ skip_url = << >>
    /\ skip_result = FALSE

NoMetrics == [totalSteps |-> 0, passedSteps |-> 0, failedSteps |-> 0, warningSteps |-> 0,
              stepDetails |-> << >>]

ExeIdle ==
    /\ scenario = Scenario(<< >>)
    /\ ei = 0
    /\ executed_code = << >>
    /\ final_result = TRUE
    /\ page_state = None
    /\ artifacts = << >>
    /\ raisedSteps = { }
    /\ visited = << >>
    /\ eResult = ENoResult

ValIdle ==
    /\ si = 0
    /\ ti = 0
    /\ current_url = None
    /\ execution_metrics = NoMetrics
    /\ validated_steps = << >>
    /\ validated_scenarios = << >>
    /\ vResult = NoResult

\* A call of validate_with_mcp(scenarios, target_url); target_url is read once,
\* by the first action.
Init ==
    /\ enable_mcp_validation \in BOOLEAN
    /\ skip_mcp_domains = SkipDomains
    /\ SkipIdle
    /\ ConcIdle
    /\ scenarios \in ScenarioLists
    /\ original = scenarios
    /\ pc = "v_start"
    /\ browser = None
    /\ calls = << >>
    /\ closeCalls = 0
    /\ ValIdle
    /\ ExeIdle

Next ==
    \/ VBypassDisabled
    \/ \E target_url \in TargetUrls : VBypassSkip(target_url)
    \/ \E target_url \in TargetUrls, launchOk, pageOk, closeOk \in BOOLEAN :
          VLaunch(target_url, launchOk, pageOk, closeOk)
    \/ VScenario
    \/ \E ok \in BOOLEAN : VGoto(ok)
    \/ VNoPage
    \/ \E primary \in Outcomes, alts \in [1..3 -> Outcomes], actOk \in BOOLEAN :
          VSelector(primary, alts, actOk)
    \/ \E ok \in BOOLEAN : VExpect(ok)
    \/ \E closeOk \in BOOLEAN : VMalformed(closeOk)
    \/ VEndScenario
    \/ \E closeOk \in BOOLEAN : VReturn(closeOk)

Spec == Init /\ [][Next]_vars

\* A call of execute_scenario_with_playwright(scenario, test_name)
InitExecute ==
    /\ enable_mcp_validation = TRUE
    /\ skip_mcp_domains = SkipDomains
    /\ SkipIdle
    /\ ConcIdle
    /\ scenarios = << >>
    /\ original = << >>
    /\ pc = "e_start"
    /\ browser = None
    /\ calls = << >>
    /\ closeCalls = 0
    /\ ValIdle
    /\ scenario \in { Scenario(st) : st \in StepLists }
    /\ ei = 0
    /\ executed_code = << >>
    /\ final_result = TRUE
    /\ page_state = None
    /\ artifacts = << >>
    /\ raisedSteps = { }
    /\ visited = << >>
    /\ eResult = ENoResult

StartFailures == { "none", "mkdir", "launch", "new_context", "new_page",
                   "screenshot", "tracing.start" }
EndFailures == { "none", "tracing.stop", "screenshot_final", "write_txt", "write_json" }

NextExecute ==
    \/ \E fail \in StartFailures, closeOk \in BOOLEAN : EStart(fail, closeOk)
    \/ \E ok \in BOOLEAN : EStep(ok)
    \/ \E fail \in EndFailures, stateOk, closeOk \in BOOLEAN : EFinish(fail, stateOk, closeOk)

SpecExecute == InitExecute /\ [][NextExecute]_vars

\* -------------------------------------------------------- skip check
\* Longest target URL and longest skip domain, in characters.
MaxUrlLen == 3
MaxDomainLen == 2

SkipChars == { "b", "B", "k" }

\* Non-empty entries, as Config keeps them: `if d.strip()` drops the empty ones.
DomainStrings == SeqsUpTo(SkipChars, MaxDomainLen) \ { << >> }

\* Skip lists of up to two domains.
DomainLists ==
    { << >> } \cup { << d >> : d \in DomainStrings }
              \cup { << d, e >> : d \in DomainStrings, e \in DomainStrings }

UrlStrings == SeqsUpTo(SkipChars, MaxUrlLen)

\* A call of should_skip_mcp_validation(target_url) under some configured skip list
InitSkip ==
    /\ enable_mcp_validation = TRUE
    /\ skip_mcp_domains \in DomainLists
    /\ skip_url \in UrlStrings
    /\ skip_result = FALSE
    /\ ConcIdle
    /\ scenarios = << >>
    /\ original = << >>
    /\ pc = "s_start"
    /\ browser = None
    /\ calls = << >>
    /\ closeCalls = 0
    /\ ValIdle
    /\ ExeIdle

SkipCheck ==
    /\ pc = "s_start"
    /\ skip_result' = should_skip_mcp_validation(skip_mcp_domains, skip_url)
    /\ pc' = "s_done"
    /\ UNCHANGED << enable_mcp_validation, skip_mcp_domains, skip_url, original,
                    clock, passes, disk,
                    valVars, exeVars, browser, calls, closeCalls >>

NextSkip == SkipCheck

SpecSkip == InitSkip /\ [][NextSkip]_vars

\* -------------------------------------------------------- generate request
\* A request to /api/v1/generate after the model answered with its scenarios.
InitGenerate ==
    /\ enable_mcp_validation \in BOOLEAN
    /\ skip_mcp_domains = SkipDomains
    /\ SkipIdle
    /\ ConcIdle
    /\ scenarios \in ScenarioListsOf(MaxGenSteps)
    /\ original = scenarios
    /\ pc = "g_start"
    /\ browser = None
    /\ calls = << >>
    /\ closeCalls = 0
    /\ ValIdle
    /\ ExeIdle

\* if config.enable_mcp_validation and len(gemini_response['scenarios']) > 0:
\*     mcp_result = await validate_with_mcp(gemini_response['scenarios'], target_url)
GValidate ==
    /\ pc = "g_start"
    /\ enable_mcp_validation
    /\ Len(scenarios) > 0
    /\ pc' = "v_start"
    /\ UNCHANGED << cfgVars, valVars, exeVars, browser, calls, closeCalls >>

\* FirstScenario read from a copy of the list taken before validation.
FirstScenarioOriginal == original[1]

\* gemini_response['scenarios'][0]: the list validation worked on, read after it
FirstScenario == scenarios[1]

\* if len(gemini_response['scenarios']) > 0:
\*     execution_result = await execute_scenario_with_playwright(scenarios[0], ...)
\* reached when validation returned or raised (the `except` at 737 swallows it), or
\* at once when validation is disabled; the pass launches a browser of its own.
GExecute ==
    /\ \/ pc = "v_done"
       \/ pc = "g_start" /\ ~enable_mcp_validation
    /\ Len(scenarios) > 0
    /\ scenario' = FirstScenario
    /\ pc' = "e_start"
    /\ browser' = None
    /\ calls' = << >>
    /\ closeCalls' = 0
    /\ UNCHANGED << cfgVars, valVars, ei, executed_code, final_result, page_state,
                    artifacts, raisedSteps, visited, eResult >>

\* save_to_results_folder(...); return final_result
GReturn ==
    /\ \/ pc = "e_done"
       \/ pc = "g_start" /\ Len(scenarios) = 0
    /\ pc' = "g_done"
    /\ UNCHANGED << cfgVars, valVars, exeVars, browser, calls, closeCalls >>

\* target_url of a generate request is request.targetUrl or the URL found in the
\* objective.
NextGenerate ==
    \/ GValidate
    \/ \E target_url \in TargetUrls : VBypassSkip(target_url)
    \/ \E target_url \in TargetUrls, launchOk, pageOk, closeOk \in BOOLEAN :
          VLaunch(target_url, launchOk, pageOk, closeOk)
    \/ VScenario
    \/ \E ok \in BOOLEAN : VGoto(ok)
    \/ VNoPage
    \/ \E primary \in Outcomes, alts \in [1..3 -> Outcomes], actOk \in BOOLEAN :
          VSelector(primary, alts, actOk)
    \/ \E ok \in BOOLEAN : VExpect(ok)
    \/ \E closeOk \in BOOLEAN : VMalformed(closeOk)
    \/ VEndScenario
    \/ \E closeOk \in BOOLEAN : VReturn(closeOk)
    \/ GExecute
    \/ \E fail \in StartFailures, closeOk \in BOOLEAN : EStart(fail, closeOk)
    \/ \E ok \in BOOLEAN : EStep(ok)
    \/ \E fail \in EndFailures, stateOk, closeOk \in BOOLEAN : EFinish(fail, stateOk, closeOk)
    \/ GReturn

SpecGenerate == InitGenerate /\ [][NextGenerate]_vars

\* ------------------------------------------------ concurrent execution passes
Digits == << "0", "1", "2", "3", "4", "5", "6", "7", "8", "9" >>
Str(n) == Digits[n + 1]

\* datetime.isoformat() of a naive datetime: the fraction is left out when the
\* microsecond is 0
isoformat(now) ==
    << "2026-11-02", "T", "04", ":", "38", ":", Str(now.sec) >>
        \o (IF now.us = 0 THEN << >> ELSE << ".", Str(now.us) >>)

\* str.replace(old, new)
Replace(str, old, new) == [i \in 1..Len(str) |-> IF str[i] = old THEN new ELSE str[i]]

\* str.split(sep)[0]
BeforeFirst(str, sep) ==
    IF \E i \in 1..Len(str) : str[i] = sep
    THEN SubSeq(str, 1, (CHOOSE i \in 1..Len(str) :
                            str[i] = sep /\ \A j \in 1..(i - 1) : str[j] # sep) - 1)
    ELSE str

\* datetime.now().isoformat().replace(':', '-').replace('.', '-').split('+')[0]
generate_timestamp(now) ==
    BeforeFirst(Replace(Replace(isoformat(now), ":", "-"), ".", "-"), "+")

\* Path(config.playwright_reports_dir) / f"report-{timestamp}"
ReportDir(timestamp) == << "playwright-reports", "/", "report-" >> \o timestamp

\* Writing a file replaces what was at that path.
Written(d, dir, name, by) ==
    { f \in d : ~(f.dir = dir /\ f.name = name) } \cup { [dir |-> dir, name |-> name, by |-> by] }

\* A call of execute_scenario_with_playwright by two requests at once
InitConcurrent ==
    /\ enable_mcp_validation = TRUE
    /\ skip_mcp_domains = SkipDomains
    /\ SkipIdle
    /\ ConcIdle
    /\ scenarios = << >>
    /\ original = << >>
    /\ pc = "c_run"
    /\ browser = None
    /\ calls = << >>
    /\ closeCalls = 0
    /\ ValIdle
    /\ ExeIdle

ConcFrame ==
    UNCHANGED << enable_mcp_validation, skip_mcp_domains, skip_url, skip_result, original,
                 valVars, exeVars, pc, browser, calls, closeCalls >>

\* The wall clock moves on between two reads, or it does not.
Tick ==
    /\ pc = "c_run"
    /\ \/ clock.us < MaxMicro /\ clock' = [clock EXCEPT !.us = @ + 1]
       \/ clock.sec < MaxSec /\ clock' = [sec |-> clock.sec + 1, us |-> 0]
    /\ UNCHANGED << passes, disk >>
    /\ ConcFrame

\* timestamp = generate_timestamp(); report_dir = ...; then, with no await in
\* between, report_dir.mkdir(parents=True, exist_ok=True) and the same for
\* artifacts: a directory that already exists is accepted.
CStart(i) ==
    /\ pc = "c_run"
    /\ passes[i].pc = "start"
    /\ LET dir == ReportDir(generate_timestamp(clock))
       IN  passes' = [passes EXCEPT ![i] = [pc |-> "made", report_dir |-> dir, session |-> 0]]
    /\ UNCHANGED << clock, disk >>
    /\ ConcFrame

\* browser = await p.chromium.launch(headless=True): a new browser every time
CLaunch(i) ==
    /\ pc = "c_run"
    /\ passes[i].pc = "made"
    /\ passes' = [passes EXCEPT ![i].pc = "launched",
                                ![i].session = 1 + Cardinality({ j \in Invocations :
                                                                   passes[j].session # 0 })]
    /\ UNCHANGED << clock, disk >>
    /\ ConcFrame

\* page.screenshot(...), tracing.stop(path=...), page.screenshot(...) into artifacts/
CArtifacts(i) ==
    /\ pc = "c_run"
    /\ passes[i].pc = "launched"
    /\ LET dir == passes[i].report_dir
       IN  disk' = Written(Written(Written(disk, dir, "screenshot-001.png", i),
                                   dir, "trace-001.zip", i),
                           dir, "screenshot-final.png", i)
    /\ passes' = [passes EXCEPT ![i].pc = "closed"]
    /\ clock' = clock
    /\ ConcFrame

\* execution-result.txt and execution-report.json, opened with mode 'w'
CReports(i) ==
    /\ pc = "c_run"
    /\ passes[i].pc = "closed"
    /\ LET dir == passes[i].report_dir
       IN  disk' = Written(Written(disk, dir, "execution-result.txt", i),
                           dir, "execution-report.json", i)
    /\ passes' = [passes EXCEPT ![i].pc = "done"]
    /\ clock' = clock
    /\ ConcFrame

NextConcurrent ==
    \/ Tick
    \/ \E i \in Invocations : CStart(i)
    \/ \E i \in Invocations : CLaunch(i)
    \/ \E i \in Invocations : CArtifacts(i)
    \/ \E i \in Invocations : CReports(i)

SpecConcurrent == InitConcurrent /\ [][NextConcurrent]_vars

\* ---------------------------------------------------------------- claims
Last(seq) == seq[Len(seq)]

RECURSIVE NumSteps(_)
\* Number of steps of a scenario list.
NumSteps(list) ==
    IF list = << >> THEN 0
    ELSE Len(Head(list).steps) + NumSteps(Tail(list))

ActionOps == { "click", "fill" }

\* Clicks and fills among the recorded browser calls.
ActionCallsIn(c) == SelectSeq(c, LAMBDA x : x.op \in ActionOps)

\* Visibility queries among the recorded browser calls that answered visible.
VisibleIn(c) == SelectSeq(c, LAMBDA x : x.op = "is_visible" /\ x.res = "visible")

\* Operations of the execution pass whose exception is not handled by a step or
\* by the page-state handler.
PassOps == { "mkdir", "launch", "new_context", "new_page", "screenshot", "tracing.start",
             "tracing.stop", "screenshot_final", "close", "write_txt", "write_json" }

PassLevelFailure ==
    \E i \in 1..Len(calls) : calls[i].op \in PassOps /\ calls[i].res = "throws"

Called(op) == \E i \in 1..Len(calls) : calls[i].op = op

Succeeded(op) == \E i \in 1..Len(calls) : calls[i].op = op /\ calls[i].res = "ok"

\* C1 (as stated): the execution pass returns success = false if and only if at
\* least one step raised during the run.
C1_SuccessIffNoStepRaised ==
    pc = "e_done" => (eResult.success = FALSE <=> raisedSteps # { })

\* C1 (amended): the execution pass returns success = false if and only if an
\* operation outside the per-step handling raised (report directory, launch,
\* context, page, screenshots, trace start/stop, close, report files); a step
\* that raised does not change success.
C1_SuccessIffPassCompleted ==
    pc = "e_done" => (eResult.success = FALSE <=> PassLevelFailure)

\* C1 witness: a pass that returned success = true although a step raised.
C1_Witness ==
    pc = "e_done" /\ raisedSteps # { } /\ eResult.success = TRUE

C3_CountersAddUp ==
    (pc \in { "v_step", "v_scenario" } \/ vResult.hasMetrics) =>
        execution_metrics.totalSteps =
            execution_metrics.passedSteps + execution_metrics.failedSteps
            + execution_metrics.warningSteps

\* C3 witness: returned metrics with a passed, a failed and a warning step.
C3_Witness ==
    /\ vResult.hasMetrics
    /\ execution_metrics.passedSteps >= 1
    /\ execution_metrics.failedSteps >= 1
    /\ execution_metrics.warningSteps >= 1

\* C4: when a validation pass completes (validated = true), totalSteps equals the
\* number of steps of the scenarios given, skipped steps included.
C4_TotalIsNumberOfSteps ==
    vResult.validated => execution_metrics.totalSteps = NumSteps(original)

\* C4 witness: a completed pass over two scenarios with a skipped and a failed step.
C4_Witness ==
    /\ vResult.validated
    /\ Len(original) = 2
    /\ execution_metrics.warningSteps >= 1
    /\ execution_metrics.failedSteps >= 1

Interactive == { "fill", "click", "expect" }

\* C5: in the validation pass a goto that raises is recorded as failed and leaves
\* current_url as it was; while no goto has succeeded (current_url is None) every
\* fill, click or expect step is recorded as warning "No page loaded", not as
\* failed or passed, and makes no browser call.
C5_FailedGotoAndNoPage ==
    [][ /\ (AtStep /\ CurStep.action = "goto"
              /\ calls' = << Call("goto", NoSel, "throws") >>) =>
               /\ current_url' = current_url
               /\ Last(execution_metrics'.stepDetails).status = "failed"
               /\ execution_metrics'.failedSteps = execution_metrics.failedSteps + 1
               /\ execution_metrics'.passedSteps = execution_metrics.passedSteps
        /\ (AtStep /\ CurStep.action \in Interactive /\ current_url = None) =>
               /\ current_url' = None
               /\ calls' = << >>
               /\ Last(execution_metrics'.stepDetails) =
                     Detail(CurStep.action, "warning", "No page loaded")
               /\ execution_metrics'.warningSteps = execution_metrics.warningSteps + 1
               /\ execution_metrics'.failedSteps = execution_metrics.failedSteps
               /\ execution_metrics'.passedSteps = execution_metrics.passedSteps
               /\ validated_steps' = validated_steps
      ]_vars

\* C5 witness: the first goto of a scenario failed and the interactive step after
\* it was recorded as warning.
C5_Witness ==
    /\ pc = "v_step"
    /\ ti = 3
    /\ current_url = None
    /\ scenarios[si].steps[1].action = "goto"
    /\ scenarios[si].steps[2].action \in Interactive
    /\ execution_metrics.failedSteps = 1
    /\ execution_metrics.warningSteps = 1

NoVisibleIn(c) == \A i \in 1..Len(c) : c[i].op = "is_visible" => c[i].res # "visible"

\* C6: in the validation pass with a page loaded, a fill or click step for which
\* no visibility query (the selector's or an alternative's) answers visible is
\* recorded as failed, never as passed, and its action is not performed.
C6_UnresolvedFails ==
    [][ (AtStep /\ CurStep.action \in ActionOps /\ current_url # None
           /\ NoVisibleIn(calls')) =>
            /\ Last(execution_metrics'.stepDetails).status = "failed"
            /\ execution_metrics'.failedSteps = execution_metrics.failedSteps + 1
            /\ execution_metrics'.passedSteps = execution_metrics.passedSteps
            /\ ActionCallsIn(calls') = << >>
            /\ validated_steps' = validated_steps
      ]_vars

\* C6 witness: a step whose selector and three alternatives were all queried and
\* none was visible.
C6_Witness ==
    /\ pc = "v_step"
    /\ Len(calls) = 4
    /\ \A i \in 1..4 : calls[i].op = "is_visible" /\ calls[i].res # "visible"
    /\ Last(execution_metrics.stepDetails).reason = "Selector not found"

LoopEntered == Succeeded("tracing.start")

\* C7: in the execution pass a step that raises does not end the loop: the steps
\* are visited once each, in order, and after the loop the trace stop is
\* attempted, and the final screenshot if the trace stop succeeded.
C7_EveryStepVisited ==
    /\ pc = "e_step" =>
          /\ ei <= Len(scenario.steps) + 1
          /\ visited = [i \in 1..(ei - 1) |-> i]
    /\ (pc = "e_done" /\ LoopEntered) =>
          /\ visited = [i \in 1..Len(scenario.steps) |-> i]
          /\ Called("tracing.stop")
          /\ Succeeded("tracing.stop") => Called("screenshot_final")

\* C7 witness: the first of several steps raised and the pass still reached the
\* final screenshot.
C7_Witness ==
    /\ pc = "e_done"
    /\ Len(scenario.steps) >= 2
    /\ 1 \in raisedSteps
    /\ Called("screenshot_final")

\* C8: in the execution pass, once the browser has been launched, browser.close()
\* is called exactly once on every exit path.
C8_ClosedOnceWhenLaunched ==
    (pc = "e_done" /\ browser = "Browser") => closeCalls = 1

\* C9: in the validation pass browser.close() is called on every exit path once
\* the browser has been launched, and never when it was not launched.
C9_ClosedIffLaunched ==
    /\ browser = None => closeCalls = 0
    /\ (pc = "v_done" /\ browser = "Browser") => closeCalls >= 1

\* C9 witness: an exception escaped the per-step handling and the browser was closed.
C9_Witness ==
    /\ pc = "v_done"
    /\ vResult.reason = "KeyError: 'action'"
    /\ browser = "Browser"
    /\ closeCalls = 1

\* C10: both passes turn every internal failure into a returned result and never
\* propagate an exception to the caller.
C10_NeverRaises ==
    /\ pc = "v_done" => vResult.outcome = "returned"
    /\ pc = "e_done" => eResult.outcome = "returned"


\* C11: for a non-empty URL, should_skip_mcp_validation returns true exactly when
\* some configured skip domain occurs in the URL as a substring with the letter
\* case of both the domain and the URL ignored.
C11_CaseInsensitiveMatch ==
    (pc = "s_done" /\ skip_url # << >>) =>
        (skip_result <=>
            \E d \in 1..Len(skip_mcp_domains) :
                Contains(LowerStr(skip_mcp_domains[d]), LowerStr(skip_url)))


\* The list a result of validate_with_mcp holds under "scenarios".
ResultScenarios ==
    CASE vResult.ref = "scenarios" -> scenarios
      [] vResult.ref = "validated_scenarios" -> validated_scenarios
      [] OTHER -> << >>

\* Two scenario lists with the same scenarios and the same steps, selectors aside.
SameButSelectors(a, b) ==
    /\ Len(a) = Len(b)
    /\ \A i \in 1..Len(a) :
          /\ a[i].name = b[i].name
          /\ Len(a[i].steps) = Len(b[i].steps)
          /\ \A j \in 1..Len(a[i].steps) :
                [a[i].steps[j] EXCEPT !.selector = b[i].steps[j].selector] = b[i].steps[j]

\* C12 (as stated): every result of validate_with_mcp holds under "scenarios" the
\* scenario list that was passed in, same scenarios and same steps.
C12_ResultHoldsOriginal ==
    vResult.outcome = "returned" => ResultScenarios = original

\* C12 (amended): a result with validated = false holds under "scenarios" the
\* caller's list (same scenarios and steps, selectors aside); a result with
\* validated = true holds there the validated-scenario list instead, one entry per
\* scenario with at most that scenario's steps; no result holds both lists.
C12_ResultScenarios ==
    vResult.outcome = "returned" =>
        IF vResult.validated
        THEN /\ vResult.ref = "validated_scenarios"
             /\ Len(ResultScenarios) = Len(original)
             /\ \A i \in 1..Len(original) :
                   /\ ResultScenarios[i].name = original[i].name
                   /\ Len(ResultScenarios[i].steps) <= Len(original[i].steps)
        ELSE /\ vResult.ref = "scenarios"
             /\ SameButSelectors(ResultScenarios, original)

\* C12 witness: a completed pass whose result does not hold the list passed in.
C12_Witness ==
    /\ vResult.outcome = "returned"
    /\ vResult.validated
    /\ ResultScenarios # original

EndedByException ==
    /\ vResult.outcome = "returned"
    /\ vResult.status = "failed"
    /\ execution_metrics.totalSteps > 1

\* C13 (as stated): when an unhandled exception ends the validation pass after
\* steps were processed, the result has validated = false and its scenarios have
\* every selector as the caller passed it.
C13_FailureReturnsUnrepaired ==
    EndedByException => (~vResult.validated /\ ResultScenarios = original)

\* C13 (amended): when an unhandled exception ends the validation pass after
\* steps were processed, the result has validated = false and holds the caller's
\* list, whose steps are as passed except that a fill/click selector repaired
\* before the exception stays replaced by one of its alternatives.
C13_FailureReturnsCallerList ==
    EndedByException =>
        /\ ~vResult.validated
        /\ vResult.ref = "scenarios"
        /\ SameButSelectors(scenarios, original)
        /\ \A i \in 1..Len(scenarios) : \A j \in 1..Len(scenarios[i].steps) :
              LET now == scenarios[i].steps[j]
                  was == original[i].steps[j]
              IN  now.selector # was.selector =>
                     /\ was.action \in ActionOps
                     /\ \E a \in 1..3 : now.selector = Alternatives(was.selector)[a]

\* C13 witness: the pass ended by an exception and the returned list carries a
\* repaired selector.
C13_Witness ==
    /\ EndedByException
    /\ ResultScenarios # original

\* C14: in the validation pass, when the first match of a fill/click step's own
\* selector is visible, the step's selector is left unchanged and no alternative
\* selector is queried.
C14_VisibleNeedsNoRepair ==
    [][ (AtStep /\ CurStep.action \in ActionOps /\ current_url # None
           /\ calls'[1] = Call("is_visible", CurStep.selector, "visible")) =>
            /\ scenarios' = scenarios
            /\ \A i \in 2..Len(calls') : calls'[i].op # "is_visible"
      ]_vars

\* C14 witness: a step whose own selector was visible and was then performed.
C14_Witness ==
    /\ pc = "v_step"
    /\ ti > 1
    /\ Len(calls) = 2
    /\ calls[1] = Call("is_visible", scenarios[si].steps[ti - 1].selector, "visible")
    /\ calls[2].op \in ActionOps


\* Page operations of the interactive steps in the execution pass.
InteractiveOps == { "fill", "click", "wait_for" }

\* C15 (as stated): in the execution pass a fill, click or expect step that comes
\* before any successful goto of the scenario is not attempted on the page and
\* does not make the run count as failed.
C15_NotAttemptedBeforeGoto ==
    /\ \A i \in 1..Len(calls) :
          calls[i].op \in InteractiveOps =>
              \E j \in 1..(i - 1) : calls[j].op = "goto" /\ calls[j].res = "ok"
    /\ (~Succeeded("goto") /\ pc = "e_step") =>
          (final_result = FALSE => \E i \in raisedSteps : scenario.steps[i].action = "goto")

\* C15 (amended): the execution pass has no page-loaded check; a fill, click or
\* expect-toBeVisible step that comes before any successful goto is attempted on
\* the page with its own selector like any other step, and if the attempt raises
\* the run's final_result becomes false and the loop goes on to the next step.
C15_AttemptedBeforeGoto ==
    [][ (/\ pc = "e_step"
         /\ ei <= Len(scenario.steps)
         /\ ~Succeeded("goto")
         /\ \/ EStepAt.action \in ActionOps
            \/ EStepAt.action = "expect" /\ EStepAt.condition = "toBeVisible") =>
            /\ Len(calls') = Len(calls) + 1
            /\ Last(calls').op = (IF EStepAt.action = "expect" THEN "wait_for"
                                  ELSE EStepAt.action)
            /\ Last(calls').sel = EStepAt.selector
            /\ final_result' = (final_result /\ Last(calls').res = "ok")
            /\ ei' = ei + 1
            /\ pc' = "e_step"
      ]_vars

\* C15 witness: a fill or click was attempted with no goto before it, raised, and
\* the run counts as failed.
C15_Witness ==
    /\ pc = "e_step"
    /\ ~Called("goto")
    /\ \E i \in 1..Len(calls) : calls[i].op \in ActionOps /\ calls[i].res = "throws"
    /\ final_result = FALSE


\* A validation step with a page loaded that queries or acts on a selector.
InteractiveAtPage ==
    /\ AtStep
    /\ current_url # None
    /\ CurStep.action \in { "click", "fill", "expect" }

\* The verdict the calls of one step give: the last call is the step's action or
\* wait and it succeeded (a step that makes no call has nothing to fail on).
OwnPassed(c) ==
    c = << >> \/ (Last(c).op \in { "click", "fill", "wait_for" } /\ Last(c).res = "ok")

Counters(m) == << m.totalSteps, m.passedSteps, m.failedSteps, m.warningSteps >>

\* The scenario of the example: goto, fill, expect toBeVisible.
ExampleList == << Scenario(<< GotoStep, FillStep, ExpectStep >>) >>

\* C16: in the validation pass, a fill/click/expect step that runs with a page
\* loaded leaves the page loaded whatever its outcome, is never a warning, and is
\* counted passed or failed on the calls made on its own selector (or that
\* selector's alternatives) only; so for [goto ok, fill with no visible match and
\* no visible alternative, expect toBeVisible on a visible element] the counters
\* end as total 3, passed 2, failed 1, warning 0.
C16_JudgedOnOwnSelector ==
    [][ InteractiveAtPage =>
          LET m == execution_metrics
              n == execution_metrics'
              one == IF OwnPassed(calls') THEN 1 ELSE 0
          IN  /\ current_url' = current_url
              /\ \A i \in 1..Len(calls') :
                    calls'[i].sel \in { CurStep.selector } \cup
                        { Alternatives(CurStep.selector)[a] : a \in 1..3 }
              /\ Counters(n) = << m.totalSteps + 1, m.passedSteps + one,
                                  m.failedSteps + (1 - one), m.warningSteps >>
              /\ (/\ original = ExampleList
                  /\ ti = 3
                  /\ Len(m.stepDetails) = 2
                  /\ m.stepDetails[1].status = "passed"
                  /\ m.stepDetails[2].reason = "Selector not found"
                  /\ calls' = << Call("wait_for", SelB, "ok") >>)
                 => Counters(n) = << 3, 2, 1, 0 >>
      ]_vars

\* C16 witness: the example scenario validated to the end with the fill failed on
\* its selector and the expect passed after it.
C16_Witness ==
    /\ original = ExampleList
    /\ pc = "v_step"
    /\ ti = 4
    /\ current_url # None
    /\ execution_metrics.stepDetails[2].reason = "Selector not found"
    /\ execution_metrics.stepDetails[3].status = "passed"
    /\ Counters(execution_metrics) = << 3, 2, 1, 0 >>


ExecutionPcs == { "e_start", "e_step", "e_done" }

ValidationFinished == vResult.outcome \in { "returned", "raised" }

\* C17: in a generate request with at least one scenario, the execution pass
\* starts only after the validation pass (when enabled) has finished, it starts
\* after every way validation can end (validated, skipped, failed, raised), the
\* request does not complete without it, and it runs on the first scenario of the
\* list as validation left it, repaired selectors included, which no later step
\* changes.
C17_ExecutionFollowsValidation ==
    [][ Len(original) > 0 =>
          /\ pc = "v_done" => (ValidationFinished /\ pc' = "e_start")
          /\ pc' = "e_start" =>
                /\ enable_mcp_validation => (pc = "v_done" /\ ValidationFinished)
                /\ scenario' = scenarios[1]
                /\ eResult.outcome = "none"
          /\ pc \in ExecutionPcs =>
                /\ scenarios' = scenarios
                /\ scenario' = scenario
                /\ scenario = scenarios[1]
                /\ \A i \in 1..Len(calls') :
                      calls'[i].op \in InteractiveOps =>
                          \E j \in 1..Len(scenarios[1].steps) :
                              calls'[i].sel = scenarios[1].steps[j].selector
          /\ pc' = "g_done" => (pc = "e_done" /\ eResult.outcome = "returned")
      ]_vars

\* C17 witness: validation repaired a selector of the first scenario and then
\* raised (its close failed); the execution pass ran the step on the repaired
\* selector and the request completed.
C17_Witness ==
    /\ pc = "g_done"
    /\ vResult.outcome = "raised"
    /\ scenario # original[1]
    /\ \E i \in 1..Len(calls), a \in 1..3 :
          /\ calls[i].op \in ActionOps
          /\ calls[i].sel = Alternatives(SelA)[a]


\* Visibility queries a step made after the query of its own selector.
ProbesIn(c) == SelectSeq(Tail(c), LAMBDA x : x.op = "is_visible")

\* The attribute each alternative selector starts with, in the order claimed.
ProbeOrder == << "[data-testid=\"", "[aria-label*=\"", "[placeholder*=\"" >>

\* C18: in the validation pass, when a fill/click step's own selector is not
\* visible, the alternatives are queried in the order data-testid, aria-label,
\* placeholder, built on the selector's token; querying stops at the first one
\* that is visible, which becomes the step's selector and the target of its
\* action; a probe that is hidden or throws only moves on to the next one, and
\* the step fails with "Selector not found" only after all three, the pass
\* going on to the next step either way.
C18_ProbeOrder ==
    [][ (/\ AtStep
         /\ current_url # None
         /\ CurStep.action \in ActionOps
         /\ calls'[1] = Call("is_visible", CurStep.selector, "hidden")) =>
          LET p == ProbesIn(calls')
              n == Len(p)
              detail == Last(execution_metrics'.stepDetails)
          IN  /\ n \in 1..3
              /\ \A i \in 1..n :
                    /\ p[i] = calls'[i + 1]
                    /\ p[i].sel = << ProbeOrder[i] >> \o Token(CurStep.selector) \o << "\"]" >>
                    /\ i < n => p[i].res # "visible"
              /\ IF p[n].res = "visible"
                 THEN /\ scenarios' = [scenarios EXCEPT ![si].steps[ti].selector = p[n].sel]
                      /\ Len(calls') = n + 2
                      /\ Last(calls') = Call(CurStep.action, p[n].sel, Last(calls').res)
                      /\ detail.status = (IF Last(calls').res = "ok" THEN "passed" ELSE "failed")
                 ELSE /\ n = 3
                      /\ Len(calls') = 4
                      /\ scenarios' = scenarios
                      /\ detail.status = "failed"
                      /\ detail.reason = "Selector not found"
              /\ pc' = "v_step"
              /\ ti' = ti + 1
              /\ vResult' = vResult
      ]_vars

\* C18 witness: the first probe threw, the second was visible, the third was not
\* made, and the step passed on the aria-label alternative.
C18_Witness ==
    /\ pc = "v_step"
    /\ ti > 1
    /\ Len(calls) = 4
    /\ calls[1].res = "hidden"
    /\ calls[2] = Call("is_visible", Alternatives(SelA)[1], "throws")
    /\ calls[3] = Call("is_visible", Alternatives(SelA)[2], "visible")
    /\ calls[4] = Call("fill", Alternatives(SelA)[2], "ok")
    /\ scenarios[si].steps[ti - 1].selector = Alternatives(SelA)[2]
    /\ Last(execution_metrics.stepDetails).status = "passed"

\* The step last processed queried its own selector and the query threw.
PrimaryQueryThrew ==
    /\ pc = "v_step"
    /\ ti > 1
    /\ Len(calls) > 0
    /\ calls[1].op = "is_visible"
    /\ calls[1].res = "throws"

\* C19 (as stated): when the query of a fill/click step's own selector throws,
\* the three alternatives are still probed, as for a selector that is not visible.
C19_ThrowingQueryStillProbes ==
    PrimaryQueryThrew => Len(ProbesIn(calls)) >= 1

\* C19 (amended): when the query of a fill/click step's own selector throws, no
\* alternative is probed and no action is made: the step is recorded as failed
\* with "Selector error", its selector stays as passed in, the page stays loaded
\* and the pass goes on.
C19_ThrowingQueryFailsStep ==
    PrimaryQueryThrew =>
        /\ Len(calls) = 1
        /\ Last(execution_metrics.stepDetails).status = "failed"
        /\ Last(execution_metrics.stepDetails).reason = "Selector error"
        /\ scenarios[si].steps[ti - 1] = original[si].steps[ti - 1]
        /\ calls[1].sel = original[si].steps[ti - 1].selector
        /\ current_url # None
        /\ vResult.outcome = "none"

\* C19 witness: a fill whose own query threw, recorded as failed, no probe made.
C19_Witness ==
    /\ PrimaryQueryThrew
    /\ scenarios[si].steps[ti - 1].action = "fill"
    /\ execution_metrics.failedSteps = 1

\* Rank of a browser event in the order of the execution pass.
Phase(op) ==
    CASE op \in { "mkdir", "launch", "new_context", "new_page" } -> 0
      [] op = "screenshot"        -> 1
      [] op = "tracing.start"     -> 2
      [] op \in { "goto", "fill", "click", "wait_for" } -> 3
      [] op = "tracing.stop"      -> 4
      [] op = "screenshot_final"  -> 5
      [] op = "title"             -> 6
      [] op = "close"             -> 7
      [] OTHER                    -> 8

\* The page call a step makes in the execution pass, << >> if it makes none.
PageCallOf(step) ==
    CASE step.action \in { "goto", "fill", "click" } -> << << step.action, step.selector >> >>
      [] step.action = "expect" /\ step.condition = "toBeVisible"
                                                      -> << << "wait_for", step.selector >> >>
      [] OTHER                                        -> << >>

RECURSIVE PageCallsOf(_)
PageCallsOf(steps) ==
    IF steps = << >> THEN << >>
    ELSE PageCallOf(Head(steps)) \o PageCallsOf(Tail(steps))

\* C20: in the execution pass the browser events occur in the order initial
\* screenshot, trace start, the steps' page calls in scenario order, trace stop,
\* final screenshot, page-state read, browser close; every step call comes after
\* a successful initial screenshot and trace start and before the trace stop,
\* and each of the other events happens at most once.
C20_EventOrder ==
    LET stepCalls == SelectSeq(calls, LAMBDA x : Phase(x.op) = 3)
    IN  /\ \A i, j \in 1..Len(calls) :
              i < j => /\ Phase(calls[i].op) <= Phase(calls[j].op)
                       /\ Phase(calls[i].op) # 3 => calls[i].op # calls[j].op
        /\ stepCalls # << >> =>
              /\ Call("screenshot", NoSel, "ok") = calls[5]
              /\ Call("tracing.start", NoSel, "ok") = calls[6]
        /\ [i \in 1..Len(stepCalls) |-> << stepCalls[i].op, stepCalls[i].sel >>]
              = PageCallsOf(SubSeq(scenario.steps, 1, ei - 1))
        /\ Called("tracing.stop") => ei = Len(scenario.steps) + 1
        /\ Called("title") =>
              /\ Succeeded("tracing.stop")
              /\ Succeeded("screenshot_final")
              /\ Called("close")

\* C20 witness: a pass over three steps that made every event, to the end.
C20_Witness ==
    /\ pc = "e_done"
    /\ eResult.success
    /\ Len(SelectSeq(calls, LAMBDA x : Phase(x.op) = 3)) = 3
    /\ [i \in 1..Len(calls) |-> Phase(calls[i].op)]
          = << 0, 0, 0, 0, 1, 2, 3, 3, 3, 4, 5, 6, 7, 8, 8 >>


\* The step loop of the execution pass ran to its end.
LoopCompleted == pc \in { "e_step", "e_done" } /\ ei = Len(scenario.steps) + 1

\* Steps for which the execution pass has a branch that calls the page.
MakesPageCall(step) ==
    \/ step.action \in { "goto", "fill", "click" }
    \/ step.action = "expect" /\ step.condition = "toBeVisible"

\* C21 (as stated): in a completed execution pass the transcript holds exactly
\* one line per step of the scenario, whatever the step's kind or outcome.
C21_OneLinePerStep ==
    LoopCompleted => Len(executed_code) = Len(scenario.steps)

\* C21 (amended): in a completed execution pass the transcript holds, in step
\* order, exactly one line for each step that calls the page (goto, fill, click,
\* expect toBeVisible), whether its call raised or not, and no line for any
\* other step (an expect with another condition, a step without an action).
C21_OneLinePerPageCall ==
    LoopCompleted =>
        LET with == SelectSeq(scenario.steps, MakesPageCall)
            stepCalls == SelectSeq(calls, LAMBDA x : x.op \in { "goto", "fill", "click", "wait_for" })
        IN  /\ Len(executed_code) = Len(with)
            /\ Len(executed_code) = Len(stepCalls)
            /\ \A i \in 1..Len(with) :
                  /\ executed_code[i][1] = stepCalls[i].op
                  /\ executed_code[i][1] = (IF with[i].action = "expect" THEN "wait_for"
                                            ELSE with[i].action)
                  /\ executed_code[i][2] = (IF with[i].action = "goto" THEN with[i].url
                                            ELSE with[i].selector)

\* C21 witness: a completed pass over a failing fill and an expect with another
\* condition, whose transcript is shorter than the scenario.
C21_Witness ==
    /\ pc = "e_done"
    /\ eResult.success
    /\ \E i \in 1..Len(scenario.steps) : scenario.steps[i] = ExpectOther
    /\ \E i \in 1..Len(calls) : calls[i].op = "fill" /\ calls[i].res = "throws"
    /\ Len(executed_code) = Len(scenario.steps) - 1


\* A step the loop has entered raised: its page call threw, or it has no action.
SomeStepRaised ==
    \/ \E i \in 1..Len(calls) :
          calls[i].op \in { "goto", "fill", "click", "wait_for" } /\ calls[i].res = "throws"
    \/ \E i \in 1..(ei - 1) : scenario.steps[i].action = Missing

\* C22: in the execution pass final_result is false, and the report's
\* execution.status "failed" instead of "completed", if and only if at least one
\* step entered so far raised; a later step that succeeds does not set it back.
C22_FinalResultIffStepRaised ==
    /\ final_result = FALSE <=> SomeStepRaised
    /\ ExecutionStatus = (IF SomeStepRaised THEN "failed" ELSE "completed")
    /\ (eResult.outcome = "returned" /\ eResult.hasReport) => LoopCompleted

\* C22 witness: a completed pass whose first step raised and whose last step
\* succeeded, reported as failed.
C22_Witness ==
    /\ pc = "e_done"
    /\ eResult.hasReport
    /\ 1 \in raisedSteps
    /\ Len(scenario.steps) > 1
    /\ Last(SelectSeq(calls, LAMBDA x : x.op \in { "goto", "fill", "click", "wait_for" })).res = "ok"
    /\ ExecutionStatus = "failed"


\* The details recorded for the steps of the current scenario processed so far.
CurDetails ==
    LET d == execution_metrics.stepDetails
    IN  SubSeq(d, Len(d) - (ti - 1) + 1, Len(d))

PassedGoto(detail) == detail.step = "Navigate to" /\ detail.status = "passed"

\* C23: within one scenario of the validation pass, once a goto has passed the
\* page stays loaded: no later step of that scenario (a failed goto, a failed or
\* passed interactive step) is followed by a step recorded as warning.
C23_NoWayBackToNoPage ==
    pc = "v_step" =>
        LET d == CurDetails
        IN  /\ (\E i \in 1..Len(d) : PassedGoto(d[i])) => current_url # None
            /\ \A i, j \in 1..Len(d) :
                  (i < j /\ PassedGoto(d[i])) => d[j].status # "warning"

\* C23 witness: goto passed, a second goto failed, and the interactive step after
\* it was still attempted.
C23_Witness ==
    /\ pc = "v_step"
    /\ ti = 4
    /\ PassedGoto(CurDetails[1])
    /\ CurDetails[2].step = "goto"
    /\ CurDetails[2].status = "failed"
    /\ CurDetails[3].status \in { "passed", "failed" }
    /\ calls # << >>


\* C24: selector substitution is the only change either pass makes to the
\* caller's scenarios: the list keeps its scenarios, their steps and every
\* step's action, url, value and condition; a step of validation changes the
\* list only by replacing the selector of the fill/click step it is processing,
\* after that selector was queried and not visible, by an alternative that was
\* queried and visible; and no step of the execution pass changes the list or
\* the scenario it was given.
C24_OnlySelectorsChange ==
    [][ /\ SameButSelectors(scenarios', original)
        /\ scenarios' # scenarios =>
              /\ AtStep
              /\ current_url # None
              /\ CurStep.action \in ActionOps
              /\ calls'[1] = Call("is_visible", CurStep.selector, "hidden")
              /\ \E a \in 1..3 :
                    /\ scenarios' = [scenarios EXCEPT
                                        ![si].steps[ti].selector = Alternatives(CurStep.selector)[a]]
                    /\ \E i \in 2..Len(calls') :
                          calls'[i] = Call("is_visible", Alternatives(CurStep.selector)[a], "visible")
        /\ pc \in ExecutionPcs => (scenarios' = scenarios /\ scenario' = scenario)
      ]_vars

\* C24 witness: a request completed after validation repaired a selector and
\* dropped a failed step from its own list, and after the execution pass ran.
C24_Witness ==
    /\ pc = "g_done"
    /\ scenarios # original
    /\ vResult.validated
    /\ NumSteps(validated_scenarios) < NumSteps(scenarios)
    /\ eResult.outcome = "returned"


Threw(op) == \E i \in 1..Len(calls) : calls[i].op = op /\ calls[i].res = "throws"

\* C25: in the execution pass a failure while reading the final page URL/title
\* does not abort the pass: the browser is still closed, the artifacts are
\* screenshot, trace and screenshot_final, pageState holds the error, and unless
\* the close or a report write fails afterwards both report files are written
\* and the result is a success result carrying the report and the artifacts.
C25_PageStateFailureIsKept ==
    (pc = "e_done" /\ Threw("title")) =>
        /\ Called("close")
        /\ artifacts = << "screenshot", "trace", "screenshot_final" >>
        /\ page_state = "error"
        /\ ~(Threw("close") \/ Threw("write_txt") \/ Threw("write_json")) =>
              /\ Succeeded("write_txt")
              /\ Succeeded("write_json")
              /\ eResult = [outcome |-> "returned", success |-> TRUE, error |-> "",
                            hasReport |-> TRUE, hasArtifacts |-> TRUE]

\* C25 witness: the page-state read failed and the pass still returned success
\* with both report files written.
C25_Witness ==
    /\ pc = "e_done"
    /\ Threw("title")
    /\ Succeeded("write_json")
    /\ eResult.success
    /\ page_state = "error"


\* C27: in the execution pass a failure writing execution-result.txt or
\* execution-report.json is not swallowed: the pass returns success = false with
\* that error, and the result carries no executionReport and no artifacts; a
\* failure of the first file leaves the second unwritten.
C27_WriteFailureReturned ==
    /\ (pc = "e_done" /\ Threw("write_txt")) =>
          /\ eResult = [outcome |-> "returned", success |-> FALSE, error |-> "write_txt",
                        hasReport |-> FALSE, hasArtifacts |-> FALSE]
          /\ ~Called("write_json")
    /\ (pc = "e_done" /\ Threw("write_json")) =>
          /\ eResult = [outcome |-> "returned", success |-> FALSE, error |-> "write_json",
                        hasReport |-> FALSE, hasArtifacts |-> FALSE]
          /\ Succeeded("write_txt")

\* C27 witness: the text file was written, the JSON report was not, and the pass
\* returned the failure.
C27_Witness ==
    /\ pc = "e_done"
    /\ Succeeded("write_txt")
    /\ Threw("write_json")
    /\ eResult.error = "write_json"


RECURSIVE PassedOf(_, _)
\* The steps whose detail, at the same position, has status passed.
PassedOf(steps, details) ==
    IF steps = << >> THEN << >>
    ELSE (IF Head(details).status = "passed" THEN << Head(steps) >> ELSE << >>)
            \o PassedOf(Tail(steps), Tail(details))

\* C28: when a validation pass completes, each validated scenario holds exactly
\* the steps of its scenario recorded as passed, in their order (with the
\* selector the step has after repair); failed and warning steps are left out,
\* so the validated steps number passedSteps.
C28_ValidatedArePassed ==
    vResult.validated =>
        LET d == execution_metrics.stepDetails
        IN  /\ Len(d) = NumSteps(scenarios)
            /\ Len(validated_scenarios) = Len(scenarios)
            /\ \A i \in 1..Len(scenarios) :
                  LET off == NumSteps(SubSeq(scenarios, 1, i - 1))
                      n == Len(scenarios[i].steps)
                  IN  /\ validated_scenarios[i].name = scenarios[i].name
                      /\ validated_scenarios[i].steps =
                            PassedOf(scenarios[i].steps, SubSeq(d, off + 1, off + n))
            /\ NumSteps(validated_scenarios) = execution_metrics.passedSteps

\* C28 witness: a completed pass with a passed, a failed and a warning step, whose
\* validated list holds the passed one only.
C28_Witness ==
    /\ vResult.validated
    /\ execution_metrics.passedSteps = 1
    /\ execution_metrics.failedSteps = 1
    /\ execution_metrics.warningSteps = 1
    /\ NumSteps(validated_scenarios) = 1


\* C29: in a validation pass the session starts every scenario with no page
\* loaded, whatever earlier scenarios loaded: a fill/click/expect step that no
\* passed goto of its own scenario precedes is recorded as warning "No page
\* loaded" and makes no call on the page.
C29_SessionResetPerScenario ==
    pc = "v_step" =>
        LET d == CurDetails
        IN  /\ (\A i \in 1..Len(d) : ~PassedGoto(d[i])) => current_url = None
            /\ \A j \in 1..Len(d) :
                  (/\ scenarios[si].steps[j].action \in { "fill", "click", "expect" }
                   /\ \A i \in 1..(j - 1) : ~PassedGoto(d[i])) =>
                      /\ d[j].status = "warning"
                      /\ d[j].reason = "No page loaded"
                      /\ j = Len(d) => calls = << >>

\* C29 witness: the first scenario loaded a page, and the first step of the
\* second scenario, an interactive one, was skipped with a warning.
C29_Witness ==
    /\ pc = "v_step"
    /\ si = 2
    /\ ti = 2
    /\ PassedGoto(execution_metrics.stepDetails[1])
    /\ CurDetails[1].status = "warning"
    /\ calls = << >>


InFlight(i) == passes[i].pc \in { "made", "launched", "closed" }

\* C26 (as stated): two execution passes in flight at once never use the same
\* report directory and never share a browser session, and a file one pass has
\* written is never replaced by the other pass.
C26_DistinctReportDirs ==
    \A i, j \in Invocations :
        i # j =>
            /\ (InFlight(i) /\ InFlight(j)) => passes[i].report_dir # passes[j].report_dir
            /\ (passes[i].session # 0 /\ passes[j].session # 0) =>
                  passes[i].session # passes[j].session
            /\ passes[i].pc \in { "closed", "done" } =>
                  [dir |-> passes[i].report_dir, name |-> "screenshot-001.png", by |-> i] \in disk

====
